---- MODULE Spec2Model ----
(***************************************************************************)
(* A model of the DomoticPi host monitor (src/monitor): configuration      *)
(* loading, the five metric adapters, the collector, the point builder /   *)
(* writer and the service loop with its shutdown signal.                   *)
(*                                                                         *)
(* Text that the program parses (COLLECTION_INTERVAL, the ENABLE_*         *)
(* switches, the temperature file) is a sequence of one-character strings, *)
(* so that int(), strip() and lower() are computed character by character. *)
(* Text the program only passes on (URL, token, host name, paths, device   *)
(* names) is a TLA+ string.                                                *)
(***************************************************************************)
EXTENDS Integers, Sequences, FiniteSets, TLC

VARIABLES
    pc,                 \* control position of the process
    env,                \* the process environment (os.getenv)
    backend_up,         \* whether InfluxDBClient(...) / write_api() succeed
    influxdb_config,    \* MonitoringService.influxdb_config
    monitoring_config,  \* MonitoringService.monitoring_config
    running,            \* MonitoringService.running
    signalled,          \* where the first shutdown signal was handled ("" when none was)
    os,                 \* the OS state the adapters read in this cycle
    metrics,            \* the snapshot returned by collect_all_metrics
    snaps,              \* the snapshots of all cycles so far
    cycle,              \* number of collection cycles started
    written,            \* backend write calls made so far
    reported,           \* the count printed by the last write_metrics
    slept,              \* number of interval sleeps started
    client,             \* InfluxDBWriter.client: "none", "open", "closed"
    closes,             \* number of client.close() calls
    pending,            \* exception travelling out of run ("" when none)
    exit,               \* how the process ended ("" while it has not)
    temp                \* result of the last get_cpu_temperature call

vars == <<pc, env, backend_up, influxdb_config, monitoring_config, running,
          signalled, os, metrics, snaps, cycle, written, reported, slept,
          client, closes, pending, exit, temp>>

(***************************************************************************)
(* Bounds of the model.                                                    *)
(***************************************************************************)
MaxCycles == 2
MaxParts == 2

(***************************************************************************)
(* Python values.                                                          *)
(***************************************************************************)
\* os.getenv of an unset variable
Unset == [set |-> FALSE, s |-> ""]

Str(s) == [set |-> TRUE, s |-> s]

\* "not v" for an Optional[str]
Falsy(v) == ~v.set \/ Len(v.s) = 0

\* isinstance(exc, cls) for the exception classes the except clauses name
IsInstance(exc, cls) ==
    CASE cls = "Exception" -> TRUE
      [] cls = "IOError" -> exc \in {"OSError", "PermissionError", "FileNotFoundError"}
      [] cls = "ValueError" -> exc \in {"ValueError", "UnicodeDecodeError"}
      [] cls = "PermissionError" -> exc = "PermissionError"
      [] OTHER -> FALSE

Caught(exc, classes) == \E cls \in classes : IsInstance(exc, cls)

EmptyDict == [k \in {} |-> 0]

\* dict.get(key, default)
Get(d, key, default) == IF key \in DOMAIN d THEN d[key] ELSE default

(***************************************************************************)
(* str.strip(), int(str) and str.lower() on character sequences.           *)
(***************************************************************************)
Whitespace == {" ", "\n", "\t"}

Digits == {"0", "1", "2", "3", "4", "5", "6", "7", "8", "9"}

DigitVal(c) ==
    CASE c = "0" -> 0 [] c = "1" -> 1 [] c = "2" -> 2 [] c = "3" -> 3
      [] c = "4" -> 4 [] c = "5" -> 5 [] c = "6" -> 6 [] c = "7" -> 7
      [] c = "8" -> 8 [] c = "9" -> 9

RECURSIVE LStrip(_)
LStrip(s) == IF s # <<>> /\ Head(s) \in Whitespace THEN LStrip(Tail(s)) ELSE s

RECURSIVE RStrip(_)
RStrip(s) ==
    IF s # <<>> /\ s[Len(s)] \in Whitespace
    THEN RStrip(SubSeq(s, 1, Len(s) - 1))
    ELSE s

Strip(s) == RStrip(LStrip(s))

RECURSIVE DigitsVal(_)
DigitsVal(s) ==
    IF s = <<>> THEN 0
    ELSE 10 * DigitsVal(SubSeq(s, 1, Len(s) - 1)) + DigitVal(s[Len(s)])

\* int(s): surrounding whitespace is dropped, one sign is allowed, at least
\* one digit is needed; otherwise ValueError.
PyInt(s) ==
    LET t == Strip(s)
        signed == t # <<>> /\ Head(t) \in {"+", "-"}
        d == IF signed THEN Tail(t) ELSE t
    IN  IF d # <<>> /\ \A i \in 1..Len(d) : d[i] \in Digits
        THEN [raised |-> "",
              val |-> IF signed /\ Head(t) = "-" THEN 0 - DigitsVal(d) ELSE DigitsVal(d)]
        ELSE [raised |-> "ValueError", val |-> 0]

LowerChar(c) ==
    CASE c = "T" -> "t" [] c = "R" -> "r" [] c = "U" -> "u" [] c = "E" -> "e"
      [] c = "F" -> "f" [] c = "A" -> "a" [] c = "L" -> "l" [] c = "S" -> "s"
      [] OTHER -> c

Lower(s) == [i \in 1..Len(s) |-> LowerChar(s[i])]

(***************************************************************************)
(* config.py                                                               *)
(***************************************************************************)
NoInfluxDBConfig == [raised |-> "unset"]

NoMonitoringConfig == [raised |-> "unset"]

\* InfluxDBConfig.__init__: the first unset or empty variable raises.
InfluxDBConfig(e) ==
    IF \E v \in {"INFLUXDB_URL", "INFLUXDB_TOKEN", "INFLUXDB_ORG",
                 "INFLUXDB_BUCKET", "HOSTNAME"} : Falsy(e[v])
    THEN [raised |-> "ValueError"]
    ELSE [raised |-> "",
          url |-> e["INFLUXDB_URL"].s,
          token |-> e["INFLUXDB_TOKEN"].s,
          org |-> e["INFLUXDB_ORG"].s,
          bucket |-> e["INFLUXDB_BUCKET"].s,
          hostname |-> e["HOSTNAME"].s]

\* enable_x_str.lower() == "true"
EnableFlag(v) == Lower(v.s) = <<"t", "r", "u", "e">>

\* variant: an unset switch counts as off instead of raising
MonitoringConfigDefaultingSwitches(e) ==
    IF Falsy(e["COLLECTION_INTERVAL"]) THEN [raised |-> "ValueError"]
    ELSE IF PyInt(e["COLLECTION_INTERVAL"].s).raised # "" THEN [raised |-> "ValueError"]
    ELSE IF Falsy(e["CPU_TEMP_PATH"]) THEN [raised |-> "ValueError"]
    ELSE [raised |-> "",
          collection_interval |-> PyInt(e["COLLECTION_INTERVAL"].s).val,
          cpu_temp_path |-> e["CPU_TEMP_PATH"].s,
          enable_cpu |-> EnableFlag(e["ENABLE_CPU"]),
          enable_memory |-> EnableFlag(e["ENABLE_MEMORY"]),
          enable_disk |-> EnableFlag(e["ENABLE_DISK"]),
          enable_temperature |-> EnableFlag(e["ENABLE_TEMPERATURE"]),
          enable_network |-> EnableFlag(e["ENABLE_NETWORK"])]

\* MonitoringConfig.__init__
MonitoringConfig(e) ==
    IF Falsy(e["COLLECTION_INTERVAL"]) THEN [raised |-> "ValueError"]
    ELSE IF PyInt(e["COLLECTION_INTERVAL"].s).raised # "" THEN [raised |-> "ValueError"]
    ELSE IF Falsy(e["CPU_TEMP_PATH"]) THEN [raised |-> "ValueError"]
    ELSE IF \E v \in {"ENABLE_CPU", "ENABLE_MEMORY", "ENABLE_DISK",
                      "ENABLE_TEMPERATURE", "ENABLE_NETWORK"} : ~e[v].set
         THEN [raised |-> "ValueError"]
    ELSE [raised |-> "",
          collection_interval |-> PyInt(e["COLLECTION_INTERVAL"].s).val,
          cpu_temp_path |-> e["CPU_TEMP_PATH"].s,
          enable_cpu |-> EnableFlag(e["ENABLE_CPU"]),
          enable_memory |-> EnableFlag(e["ENABLE_MEMORY"]),
          enable_disk |-> EnableFlag(e["ENABLE_DISK"]),
          enable_temperature |-> EnableFlag(e["ENABLE_TEMPERATURE"]),
          enable_network |-> EnableFlag(e["ENABLE_NETWORK"])]

(***************************************************************************)
(* metrics_collector.py: the adapters.  Each returns [raised, val]:        *)
(* raised is the exception that leaves the method ("" when it returns).    *)
(***************************************************************************)
HOST_SYS == "/sys"

\* os.path.join(HOST_SYS, "class/thermal/thermal_zone0/temp")
FallbackTempPath == HOST_SYS \o "/" \o "class/thermal/thermal_zone0/temp"

\* n / 1000.0, kept exact: sign, whole degrees and thousandths
Div1000 == 1000

MilliToCelsius(n) ==
    LET a == IF n < 0 THEN 0 - n ELSE n
    IN  [neg |-> n < 0 /\ a # 0, whole |-> a \div Div1000, frac |-> a % Div1000]

NoTemp == [raised |-> "", is_none |-> TRUE, val |-> MilliToCelsius(0)]

\* the body of "with open(temp_path) as f: temp = int(f.read().strip()) / 1000.0"
ReadTemp(file) ==
    IF file.open_raises # "" THEN [raised |-> file.open_raises, is_none |-> TRUE, val |-> MilliToCelsius(0)]
    ELSE IF PyInt(file.content).raised # ""
         THEN [raised |-> PyInt(file.content).raised, is_none |-> TRUE, val |-> MilliToCelsius(0)]
    ELSE [raised |-> "", is_none |-> FALSE, val |-> MilliToCelsius(PyInt(file.content).val)]

\* variant: the except clause names ValueError only
TempExceptValueErrorOnly == {"ValueError"}

\* except (IOError, ValueError)
TempExcept == {"IOError", "ValueError"}

\* variant: a path that exists but cannot be read or parsed is passed over
RECURSIVE TempLoopTryingNext(_, _)
TempLoopTryingNext(paths, files) ==
    IF paths = <<>> THEN NoTemp
    ELSE IF files[Head(paths)].exists /\ ReadTemp(files[Head(paths)]).raised = ""
         THEN ReadTemp(files[Head(paths)])
         ELSE TempLoopTryingNext(Tail(paths), files)

\* the for loop over temp_paths, inside the try
RECURSIVE TempLoop(_, _)
TempLoop(paths, files) ==
    IF paths = <<>> THEN NoTemp
    ELSE IF files[Head(paths)].exists THEN ReadTemp(files[Head(paths)])
    ELSE TempLoop(Tail(paths), files)

get_cpu_temperature(config, o) ==
    IF ~config.enable_temperature THEN NoTemp
    ELSE LET r == TempLoop(<<config.cpu_temp_path, FallbackTempPath>>, o.files)
         IN  IF r.raised # "" /\ Caught(r.raised, TempExcept) THEN NoTemp ELSE r

CoreKey(idx) == "cpu_core_" \o ToString(idx) \o "_usage"

get_cpu_metrics(config, o) ==
    IF ~config.enable_cpu THEN [raised |-> "", val |-> EmptyDict]
    ELSE IF o.cpu.raises # ""
         THEN IF Caught(o.cpu.raises, {"Exception"})
              THEN [raised |-> "", val |-> EmptyDict]
              ELSE [raised |-> o.cpu.raises, val |-> EmptyDict]
    ELSE LET f == o.cpu.freq
             base == [k \in {"cpu_usage_percent", "cpu_count"} |->
                        IF k = "cpu_count" THEN o.cpu.count ELSE o.cpu.percent]
             freq == [k \in (IF f.present THEN {"cpu_freq_current"} ELSE {})
                            \cup (IF f.present /\ f.min # 0 THEN {"cpu_freq_min"} ELSE {})
                            \cup (IF f.present /\ f.max # 0 THEN {"cpu_freq_max"} ELSE {}) |->
                        CASE k = "cpu_freq_current" -> f.current
                          [] k = "cpu_freq_min" -> f.min
                          [] k = "cpu_freq_max" -> f.max]
             cores == [k \in {CoreKey(i - 1) : i \in 1..Len(o.cpu.percpu)} |->
                         o.cpu.percpu[CHOOSE i \in 1..Len(o.cpu.percpu) : CoreKey(i - 1) = k]]
         IN  [raised |-> "", val |-> cores @@ freq @@ base]

get_memory_metrics(config, o) ==
    IF ~config.enable_memory THEN [raised |-> "", val |-> EmptyDict]
    ELSE IF o.memory.raises # ""
         THEN IF Caught(o.memory.raises, {"Exception"})
              THEN [raised |-> "", val |-> EmptyDict]
              ELSE [raised |-> o.memory.raises, val |-> EmptyDict]
    ELSE LET m == o.memory.virtual
             s == o.memory.swap
         IN  [raised |-> "",
              val |-> [memory_total |-> m.total, memory_available |-> m.available,
                       memory_used |-> m.used, memory_free |-> m.free,
                       memory_percent |-> m.percent,
                       swap_total |-> s.total, swap_used |-> s.used,
                       swap_free |-> s.free, swap_percent |-> s.percent]]

DiskEntry(partition) ==
    [device |-> partition.device,
     mountpoint |-> partition.mountpoint,
     disk_total |-> partition.usage.total,
     disk_used |-> partition.usage.used,
     disk_free |-> partition.usage.free,
     disk_percent |-> partition.usage.percent]

\* variant: no inner try, a PermissionError ends the loop like any other error
RECURSIVE DiskLoopWithoutSkip(_, _)
DiskLoopWithoutSkip(partitions, disk_metrics) ==
    IF partitions = <<>> THEN [raised |-> "", val |-> disk_metrics]
    ELSE IF Head(partitions).usage.raises = ""
         THEN DiskLoopWithoutSkip(Tail(partitions),
                                  Append(disk_metrics, DiskEntry(Head(partitions))))
         ELSE [raised |-> Head(partitions).usage.raises, val |-> disk_metrics]

\* the for loop over partitions: a PermissionError of disk_usage skips the
\* partition, any other exception leaves the loop with what was appended.
RECURSIVE DiskLoop(_, _)
DiskLoop(partitions, disk_metrics) ==
    IF partitions = <<>> THEN [raised |-> "", val |-> disk_metrics]
    ELSE LET partition == Head(partitions)
         IN  IF partition.usage.raises = ""
             THEN DiskLoop(Tail(partitions), Append(disk_metrics, DiskEntry(partition)))
             ELSE IF IsInstance(partition.usage.raises, "PermissionError")
             THEN DiskLoop(Tail(partitions), disk_metrics)
             ELSE [raised |-> partition.usage.raises, val |-> disk_metrics]

get_disk_metrics(config, o) ==
    IF ~config.enable_disk THEN [raised |-> "", val |-> <<>>]
    ELSE LET r == IF o.disk.raises # ""
                  THEN [raised |-> o.disk.raises, val |-> <<>>]
                  ELSE DiskLoop(o.disk.partitions, <<>>)
         IN  IF r.raised # "" /\ ~Caught(r.raised, {"Exception"})
             THEN r
             ELSE [raised |-> "", val |-> r.val]

NetEntry(nic) ==
    [interface |-> nic.interface,
     bytes_sent |-> nic.bytes_sent, bytes_recv |-> nic.bytes_recv,
     packets_sent |-> nic.packets_sent, packets_recv |-> nic.packets_recv,
     errin |-> nic.errin, errout |-> nic.errout,
     dropin |-> nic.dropin, dropout |-> nic.dropout]

\* variant: the adapter does not look at its switch
get_network_metrics_unconditional(config, o) ==
    IF o.network.raises # "" THEN [raised |-> "", val |-> <<>>]
    ELSE [raised |-> "",
          val |-> [i \in 1..Len(o.network.nics) |-> NetEntry(o.network.nics[i])]]

get_network_metrics(config, o) ==
    IF ~config.enable_network THEN [raised |-> "", val |-> <<>>]
    ELSE IF o.network.raises # ""
         THEN IF Caught(o.network.raises, {"Exception"})
              THEN [raised |-> "", val |-> <<>>]
              ELSE [raised |-> o.network.raises, val |-> <<>>]
    ELSE [raised |-> "",
          val |-> [i \in 1..Len(o.network.nics) |-> NetEntry(o.network.nics[i])]]

(***************************************************************************)
(* metrics_collector.py: collect_all_metrics.  The four dict entries are   *)
(* evaluated in order, then the temperature; the first exception that      *)
(* leaves an adapter leaves collect_all_metrics.                           *)
(***************************************************************************)
collect_all_metrics(config, o) ==
    LET c == get_cpu_metrics(config, o)
        m == get_memory_metrics(config, o)
        d == get_disk_metrics(config, o)
        n == get_network_metrics(config, o)
        t == get_cpu_temperature(config, o)
        base == [k \in {"cpu", "memory", "disk", "network"} |->
                    CASE k = "cpu" -> c.val [] k = "memory" -> m.val
                      [] k = "disk" -> d.val [] k = "network" -> n.val]
        first == IF c.raised # "" THEN c.raised
                 ELSE IF m.raised # "" THEN m.raised
                 ELSE IF d.raised # "" THEN d.raised
                 ELSE IF n.raised # "" THEN n.raised
                 ELSE t.raised
    IN  IF first # "" THEN [raised |-> first, val |-> EmptyDict]
        ELSE IF ~t.is_none
             THEN [raised |-> "", val |-> ("temperature" :> [cpu_temperature |-> t.val]) @@ base]
             ELSE [raised |-> "", val |-> base]

(***************************************************************************)
(* influx_writer.py: the point builder.  A Point is its measurement, its   *)
(* tags and its fields; an Optional[Point] is a sequence of at most one.   *)
(***************************************************************************)
\* variant: no "if not metrics" test, an empty record gives a point too
_create_simple_point_unguarded(measurement, hostname, m) ==
    << [measurement |-> measurement,
        tags |-> [host |-> hostname],
        fields |-> m] >>

_create_simple_point(measurement, hostname, m) ==
    IF DOMAIN m = {} THEN <<>>
    ELSE << [measurement |-> measurement,
             tags |-> [host |-> hostname],
             fields |-> m] >>

_create_cpu_point(hostname, cpu_metrics) ==
    _create_simple_point("cpu", hostname, cpu_metrics)

_create_memory_point(hostname, memory_metrics) ==
    _create_simple_point("memory", hostname, memory_metrics)

_create_temperature_point(hostname, temp_metrics) ==
    _create_simple_point("temperature", hostname, temp_metrics)

_create_disk_points(hostname, disk_metrics_list) ==
    [i \in 1..Len(disk_metrics_list) |->
        LET disk_data == disk_metrics_list[i]
        IN  [measurement |-> "disk",
             tags |-> [host |-> hostname,
                       device |-> Get(disk_data, "device", "unknown"),
                       mountpoint |-> Get(disk_data, "mountpoint", "unknown")],
             fields |-> [k \in DOMAIN disk_data \ {"device", "mountpoint"} |-> disk_data[k]]]]

_create_network_points(hostname, network_metrics_list) ==
    [i \in 1..Len(network_metrics_list) |->
        LET net_data == network_metrics_list[i]
        IN  [measurement |-> "network",
             tags |-> [host |-> hostname,
                       interface |-> Get(net_data, "interface", "unknown")],
             fields |-> [k \in DOMAIN net_data \ {"interface"} |-> net_data[k]]]]

\* write_metrics, from "points = []" to the last points.extend
BuildPoints(m, hostname) ==
    _create_cpu_point(hostname, Get(m, "cpu", EmptyDict))
    \o _create_memory_point(hostname, Get(m, "memory", EmptyDict))
    \o _create_temperature_point(hostname, Get(m, "temperature", EmptyDict))
    \o _create_disk_points(hostname, Get(m, "disk", <<>>))
    \o _create_network_points(hostname, Get(m, "network", <<>>))

\* variant: a failed write is tried once more
WriteCallsRetrying(points, ok, n) ==
    IF ok THEN << [cycle |-> n, record |-> points, ok |-> ok] >>
    ELSE << [cycle |-> n, record |-> points, ok |-> ok],
            [cycle |-> n, record |-> points, ok |-> ok] >>

\* the write_api.write calls one write_metrics makes: one, in the try, whether
\* the backend accepts the batch (ok) or raises
WriteCalls(points, ok, n) ==
    << [cycle |-> n, record |-> points, ok |-> ok] >>

\* what write_metrics prints after the call: the count on success only
Reported(points, ok, before) == IF ok THEN Len(points) ELSE before

(***************************************************************************)
(* The inputs: process environments and OS states.                         *)
(***************************************************************************)
TrueChars == <<"t", "r", "u", "e">>

PrimaryTempPath == "/host/sys/class/thermal/thermal_zone0/temp"

BaseEnv ==
    [v \in {"INFLUXDB_URL", "INFLUXDB_TOKEN", "INFLUXDB_ORG", "INFLUXDB_BUCKET",
            "HOSTNAME", "COLLECTION_INTERVAL", "CPU_TEMP_PATH", "ENABLE_CPU",
            "ENABLE_MEMORY", "ENABLE_DISK", "ENABLE_TEMPERATURE", "ENABLE_NETWORK"} |->
        CASE v = "INFLUXDB_URL" -> Str("http://influxdb:8086")
          [] v = "INFLUXDB_TOKEN" -> Str("token")
          [] v = "INFLUXDB_ORG" -> Str("home")
          [] v = "INFLUXDB_BUCKET" -> Str("metrics")
          [] v = "HOSTNAME" -> Str("raspberrypi")
          [] v = "COLLECTION_INTERVAL" -> Str(<<"1", "0">>)
          [] v = "CPU_TEMP_PATH" -> Str(PrimaryTempPath)
          [] OTHER -> Str(TrueChars)]

EnableVars == {"ENABLE_CPU", "ENABLE_MEMORY", "ENABLE_DISK", "ENABLE_TEMPERATURE",
               "ENABLE_NETWORK"}

Alternatives(v) ==
    CASE v = "COLLECTION_INTERVAL" ->
            {Unset, Str(<<>>), Str(<<"a", "b", "c">>), Str(<<"0">>),
             Str(<<"-", "5">>), Str(<<" ", "2", "\n">>)}
      [] v = "CPU_TEMP_PATH" -> {Unset, Str(""), Str(FallbackTempPath)}
      [] v \in EnableVars ->
            {Unset, Str(<<>>), Str(<<"T", "r", "u", "e">>), Str(<<"f", "a", "l", "s", "e">>)}
      [] OTHER -> {Unset, Str("")}

\* the environments the service is started in: the base one, and it with one
\* variable unset, empty or set otherwise
Envs == {BaseEnv} \cup {[BaseEnv EXCEPT ![v] = a] : <<v, a>> \in
            UNION {{<<w, b>> : b \in Alternatives(w)} : w \in DOMAIN BaseEnv}}

\* every combination of the five switches
FlagEnvs ==
    {[v \in DOMAIN BaseEnv |->
        IF v \in EnableVars
        THEN (IF v \in on THEN Str(TrueChars) ELSE Str(<<"f", "a", "l", "s", "e">>))
        ELSE BaseEnv[v]] : on \in SUBSET EnableVars}

Usage(raises) == [raises |-> raises, total |-> 100, used |-> 40, free |-> 60, percent |-> 40]

Partition(device, mountpoint, raises) ==
    [device |-> device, mountpoint |-> mountpoint, usage |-> Usage(raises)]

Nic(interface) ==
    [interface |-> interface, bytes_sent |-> 7, bytes_recv |-> 9, packets_sent |-> 3,
     packets_recv |-> 4, errin |-> 0, errout |-> 0, dropin |-> 0, dropout |-> 1]

Cpu(raises, fmin) ==
    [raises |-> raises, percent |-> 15, count |-> 2, percpu |-> <<10, 20>>,
     freq |-> [present |-> fmin >= 0, current |-> 1500, min |-> fmin, max |-> 1500]]

Memory(raises) ==
    [raises |-> raises,
     virtual |-> [total |-> 1000, available |-> 600, used |-> 400, free |-> 500, percent |-> 40],
     swap |-> [total |-> 100, used |-> 0, free |-> 100, percent |-> 0]]

NoFile == [exists |-> FALSE, open_raises |-> "", content |-> <<>>]

File(content) == [exists |-> TRUE, open_raises |-> "", content |-> content]

Unreadable(exc) == [exists |-> TRUE, open_raises |-> exc, content |-> <<>>]

Files(primary, fallback) ==
    [p \in {PrimaryTempPath, FallbackTempPath} |->
        IF p = PrimaryTempPath THEN primary ELSE fallback]

C45000 == <<"4", "5", "0", "0", "0">>

C50000 == <<"5", "0", "0", "0", "0">>

HealthyOS ==
    [cpu |-> Cpu("", 600),
     memory |-> Memory(""),
     disk |-> [raises |-> "", partitions |-> << Partition("/dev/sda1", "/", "") >>],
     network |-> [raises |-> "", nics |-> << Nic("eth0") >>],
     files |-> Files(File(C45000 \o <<"\n">>), NoFile)]

RECURSIVE SeqsUpTo(_, _)
SeqsUpTo(S, n) ==
    IF n = 0 THEN {<<>>}
    ELSE LET shorter == SeqsUpTo(S, n - 1)
         IN  shorter \cup {Append(q, x) : q \in shorter, x \in S}

UsageOutcomes == {"", "PermissionError", "OSError"}

\* partition lists whose i-th partition is /dev/sd<i> on /mnt<i>
NumberedPartitions(outcomes) ==
    [i \in 1..Len(outcomes) |->
        Partition("/dev/sd" \o ToString(i), "/mnt" \o ToString(i), outcomes[i])]

DiskStates ==
    {[raises |-> "OSError", partitions |-> <<>>]}
    \cup {[raises |-> "", partitions |-> NumberedPartitions(q)] : q \in SeqsUpTo(UsageOutcomes, MaxParts)}

\* partition lists over two mounts, the same mount possibly listed twice
PartitionEntries ==
    {Partition(n[1], n[2], r) : n \in {<<"/dev/sda1", "/">>, <<"/dev/sdb1", "/mnt">>},
                               r \in UsageOutcomes}

AnyDiskStates ==
    {[raises |-> "OSError", partitions |-> <<>>]}
    \cup {[raises |-> "", partitions |-> q] : q \in SeqsUpTo(PartitionEntries, MaxParts)}

NetworkStates ==
    {[raises |-> "OSError", nics |-> <<>>],
     [raises |-> "", nics |-> <<>>],
     [raises |-> "", nics |-> << Nic("eth0") >>],
     [raises |-> "", nics |-> << Nic("lo"), Nic("eth0") >>]}

TempStates ==
    {Files(File(C45000), NoFile), Files(NoFile, File(C50000)), Files(NoFile, NoFile),
     Files(Unreadable("PermissionError"), File(C50000))}

\* the OS states of the collector and writer checks
OSStates ==
    {[cpu |-> c, memory |-> m, disk |-> d, network |-> n, files |-> f] :
        c \in {Cpu("", 600), Cpu("RuntimeError", 600)},
        m \in {Memory(""), Memory("OSError")},
        d \in DiskStates, n \in NetworkStates, f \in TempStates}

\* the OS states of the disk checks: only the partition table varies
DiskOSStates == {[HealthyOS EXCEPT !.disk = d] : d \in AnyDiskStates}

FileContents ==
    {C45000, C50000, C45000 \o <<"\n">>, <<" ", "7">>, <<"-", "1", "5", "0", "0">>,
     <<"+", "5">>, <<>>, <<"n", "/", "a">>, <<"4", "5", ".", "5">>, <<"4", " ", "5">>}

FileStates ==
    {NoFile, Unreadable("PermissionError"), Unreadable("UnicodeDecodeError")}
    \cup {File(c) : c \in FileContents}

\* the OS states of the temperature checks: only the two files vary
TempOSStates ==
    {[HealthyOS EXCEPT !.files = Files(a, b)] : a \in FileStates, b \in FileStates}

\* the OS states the running service meets from cycle to cycle
ServiceOSStates ==
    {HealthyOS,
     [HealthyOS EXCEPT !.cpu = Cpu("", 0 - 1),
                       !.memory = Memory("OSError"),
                       !.disk = [raises |-> "", partitions |->
                                    << Partition("/dev/sda1", "/", ""),
                                       Partition("/dev/sdb1", "/mnt", "PermissionError") >>],
                       !.files = Files(NoFile, NoFile)],
     [HealthyOS EXCEPT !.cpu = Cpu("", 0),
                       !.network = [raises |-> "", nics |-> << Nic("lo"), Nic("eth0") >>],
                       !.files = Files(NoFile, File(C50000))]}

(***************************************************************************)
(* main.py: the service.                                                   *)
(*   pc = "main"       main() is about to construct the service            *)
(*        "loop"       at "while self.running"                             *)
(*        "collect"    at collect_all_metrics()                            *)
(*        "write"      at write_metrics()                                  *)
(*        "sleeptest"  at "if self.running" before the sleep               *)
(*        "sleep"      the test passed: at time.sleep(collection_interval) *)
(*        "cleanup"    in the finally clause                               *)
(*        "exited"     the process has ended                               *)
(***************************************************************************)
Init ==
    /\ pc = "main"
    /\ env \in Envs
    /\ backend_up \in BOOLEAN
    /\ influxdb_config = NoInfluxDBConfig
    /\ monitoring_config = NoMonitoringConfig
    /\ running = FALSE
    /\ signalled = ""
    /\ os = HealthyOS
    /\ metrics = EmptyDict
    /\ snaps = <<>>
    /\ cycle = 0
    /\ written = <<>>
    /\ reported = -1
    /\ slept = 0
    /\ client = "none"
    /\ closes = 0
    /\ pending = ""
    /\ exit = ""
    /\ temp = NoTemp

\* the exception that leaves MonitoringService.__init__ ("" when none does):
\* the two configurations are built first, then the writer connects
ConstructRaises(e, up) ==
    IF InfluxDBConfig(e).raised # "" THEN InfluxDBConfig(e).raised
    ELSE IF MonitoringConfig(e).raised # "" THEN MonitoringConfig(e).raised
    ELSE IF ~up THEN "ConnectionError"
    ELSE ""

\* main(): service = MonitoringService(); an exception ends the process
\* before service.run() is reached
Construct ==
    /\ pc = "main"
    /\ running' = TRUE
    /\ IF ConstructRaises(env, backend_up) # ""
       THEN /\ pc' = "exited"
            /\ exit' = "error"
            /\ pending' = ConstructRaises(env, backend_up)
            /\ UNCHANGED <<influxdb_config, monitoring_config, client>>
       ELSE /\ pc' = "loop"
            /\ influxdb_config' = InfluxDBConfig(env)
            /\ monitoring_config' = MonitoringConfig(env)
            /\ client' = "open"
            /\ UNCHANGED <<exit, pending>>
    /\ UNCHANGED <<env, backend_up, signalled, os, metrics, snaps, cycle, written,
                   reported, slept, closes, temp>>

\* the positions at which the handlers of __init__ are installed
HandlersInstalled == pc \in {"loop", "collect", "write", "sleeptest", "sleep", "cleanup"}

\* _signal_handler, run between two steps of the main thread
Signal ==
    /\ HandlersInstalled
    /\ running' = FALSE
    /\ signalled' = IF signalled = "" THEN pc ELSE signalled
    /\ UNCHANGED <<pc, env, backend_up, influxdb_config, monitoring_config, os,
                   metrics, snaps, cycle, written, reported, slept, client, closes,
                   pending, exit, temp>>

\* variant: "while True"
LoopEntersAlways(r) == TRUE

\* "while self.running": the test that starts a cycle or leaves the loop
LoopEnters(r) == r

LoopTest ==
    /\ pc = "loop"
    /\ LoopEnters(running) => cycle < MaxCycles
    /\ IF LoopEnters(running)
       THEN pc' = "collect" /\ cycle' = cycle + 1
       ELSE pc' = "cleanup" /\ cycle' = cycle
    /\ UNCHANGED <<env, backend_up, influxdb_config, monitoring_config, running,
                   signalled, os, metrics, snaps, written, reported, slept, client,
                   closes, pending, exit, temp>>

\* metrics = self.metrics_collector.collect_all_metrics(), reading OS state o
Collect(o) ==
    /\ pc = "collect"
    /\ os' = o
    /\ LET r == collect_all_metrics(monitoring_config, o)
       IN  IF r.raised # ""
           THEN /\ pending' = r.raised
                /\ pc' = "cleanup"
                /\ UNCHANGED <<metrics, snaps>>
           ELSE /\ metrics' = r.val
                /\ snaps' = Append(snaps, r.val)
                /\ pc' = "write"
                /\ UNCHANGED pending
    /\ UNCHANGED <<env, backend_up, influxdb_config, monitoring_config, running,
                   signalled, cycle, written, reported, slept, client, closes, exit,
                   temp>>

\* where run goes after write_metrics returned
AfterWrite(ok) == "sleeptest"

\* self.influxdb_writer.write_metrics(metrics, hostname); the backend accepts
\* the batch or raises
Write ==
    /\ pc = "write"
    /\ IF client = "none"
       THEN /\ pc' = "sleeptest"
            /\ UNCHANGED <<written, reported>>
       ELSE \E ok \in BOOLEAN :
            LET points == BuildPoints(metrics, influxdb_config.hostname)
            IN  /\ written' = written \o WriteCalls(points, ok, cycle)
                /\ reported' = Reported(points, ok, reported)
                /\ pc' = AfterWrite(ok)
    /\ UNCHANGED <<env, backend_up, influxdb_config, monitoring_config, running,
                   signalled, os, metrics, snaps, cycle, slept, client, closes,
                   pending, exit, temp>>

\* "if self.running" before the sleep
SleepTest ==
    /\ pc = "sleeptest"
    /\ pc' = IF running THEN "sleep" ELSE "loop"
    /\ UNCHANGED <<env, backend_up, influxdb_config, monitoring_config, running,
                   signalled, os, metrics, snaps, cycle, written, reported, slept,
                   client, closes, pending, exit, temp>>

\* time.sleep(collection_interval): a negative length raises ValueError,
\* which the "except Exception" clause prints and raises again.  (The
\* "except KeyboardInterrupt" clause is never entered: __init__ replaced the
\* SIGINT handler that would raise it.)
Sleep ==
    /\ pc = "sleep"
    /\ IF monitoring_config.collection_interval < 0
       THEN /\ pending' = "ValueError"
            /\ pc' = "cleanup"
            /\ slept' = slept
       ELSE /\ slept' = slept + 1
            /\ pc' = "loop"
            /\ pending' = pending
    /\ UNCHANGED <<env, backend_up, influxdb_config, monitoring_config, running,
                   signalled, os, metrics, snaps, cycle, written, reported, client,
                   closes, exit, temp>>

\* InfluxDBWriter.close
close(c) == IF c # "none" THEN "closed" ELSE c

\* variant: cleanup after the try statement instead of in a finally clause, so
\* that an exception leaves run before the connection is closed
CleanupReraisingFirst ==
    /\ pc = "cleanup"
    /\ client' = IF pending = "" THEN close(client) ELSE client
    /\ closes' = IF pending = "" /\ client # "none" THEN closes + 1 ELSE closes
    /\ exit' = IF pending = "" THEN "clean" ELSE "error"
    /\ pc' = "exited"
    /\ UNCHANGED <<env, backend_up, influxdb_config, monitoring_config, running,
                   signalled, os, metrics, snaps, cycle, written, reported, slept,
                   pending, temp>>

\* finally: self.cleanup(); then the pending exception, if any, leaves run
Cleanup ==
    /\ pc = "cleanup"
    /\ client' = close(client)
    /\ closes' = IF client # "none" THEN closes + 1 ELSE closes
    /\ exit' = IF pending = "" THEN "clean" ELSE "error"
    /\ pc' = "exited"
    /\ UNCHANGED <<env, backend_up, influxdb_config, monitoring_config, running,
                   signalled, os, metrics, snaps, cycle, written, reported, slept,
                   pending, temp>>

Next ==
    \/ Construct
    \/ Signal
    \/ LoopTest
    \/ \E o \in ServiceOSStates : Collect(o)
    \/ Write
    \/ SleepTest
    \/ Sleep
    \/ Cleanup

Spec == Init /\ [][Next]_vars

\* the main thread always takes its next step; signals may or may not come
FairSpec ==
    /\ Spec
    /\ WF_vars(Construct) /\ WF_vars(LoopTest)
    /\ WF_vars(\E o \in ServiceOSStates : Collect(o))
    /\ WF_vars(Write) /\ WF_vars(SleepTest) /\ WF_vars(Sleep) /\ WF_vars(Cleanup)

(***************************************************************************)
(* One collection cycle of a constructed service, over wider inputs: the   *)
(* switches and the OS state are drawn at the start, then the cycle        *)
(* collects and writes.                                                    *)
(***************************************************************************)
InitCycle(envs, oss) ==
    /\ pc = "collect"
    /\ env \in envs
    /\ backend_up = TRUE
    /\ influxdb_config = InfluxDBConfig(env)
    /\ monitoring_config = MonitoringConfig(env)
    /\ running = TRUE
    /\ signalled = ""
    /\ os \in oss
    /\ metrics = EmptyDict
    /\ snaps = <<>>
    /\ cycle = 1
    /\ written = <<>>
    /\ reported = -1
    /\ slept = 0
    /\ client = "open"
    /\ closes = 0
    /\ pending = ""
    /\ exit = ""
    /\ temp = NoTemp

NextCycle == Collect(os) \/ Write

InitPipeline == InitCycle(FlagEnvs, OSStates)

SpecPipeline == InitPipeline /\ [][NextCycle]_vars

DiskEnvs == {e \in FlagEnvs : \A v \in EnableVars \ {"ENABLE_DISK"} : e[v] = Str(TrueChars)}

InitDisk == InitCycle(DiskEnvs, DiskOSStates)

SpecDisk == InitDisk /\ [][NextCycle]_vars

\* a direct call of get_cpu_temperature
GetCpuTemperature ==
    /\ pc = "collect"
    /\ temp' = get_cpu_temperature(monitoring_config, os)
    /\ pc' = "returned"
    /\ UNCHANGED <<env, backend_up, influxdb_config, monitoring_config, running,
                   signalled, os, metrics, snaps, cycle, written, reported, slept,
                   client, closes, pending, exit>>

TempEnvs ==
    {[e EXCEPT !["CPU_TEMP_PATH"] = p] :
        e \in {f \in FlagEnvs : \A v \in EnableVars \ {"ENABLE_TEMPERATURE"} : f[v] = Str(TrueChars)},
        p \in {Str(PrimaryTempPath), Str(FallbackTempPath)}}

InitTemp == InitCycle(TempEnvs, TempOSStates)

NextTemp == GetCpuTemperature

SpecTemp == InitTemp /\ [][NextTemp]_vars

(***************************************************************************)
(* The properties.                                                         *)
(***************************************************************************)
Categories == {"cpu", "memory", "disk", "network", "temperature"}

Switch(config, cat) ==
    CASE cat = "cpu" -> config.enable_cpu
      [] cat = "memory" -> config.enable_memory
      [] cat = "disk" -> config.enable_disk
      [] cat = "network" -> config.enable_network
      [] cat = "temperature" -> config.enable_temperature

\* collect_all_metrics has returned its snapshot in this cycle
Collected == pc \in {"write", "sleeptest"}

EmptyOrAbsent(m, cat) == cat \notin DOMAIN m \/ DOMAIN m[cat] = {}

PointsOf(record, measurement) ==
    {j \in 1..Len(record) : record[j].measurement = measurement}

\* C1: a category whose switch is off is absent or empty in the snapshot that
\* collect_all_metrics returns, and no batch written from it holds a point of
\* that measurement.
C1_DisabledCategoryYieldsNothing ==
    \A cat \in Categories :
        ~Switch(monitoring_config, cat) =>
            /\ Collected => EmptyOrAbsent(metrics, cat)
            /\ \A i \in 1..Len(written) : PointsOf(written[i].record, cat) = {}

\* the network switch is off while the OS reports interfaces, and the batch
\* written holds the other categories' points only
C1_Witness ==
    /\ pc = "sleeptest"
    /\ ~monitoring_config.enable_network
    /\ monitoring_config.enable_cpu
    /\ os.network.raises = "" /\ Len(os.network.nics) = 2
    /\ Len(written) = 1
    /\ PointsOf(written[1].record, "cpu") # {}
    /\ PointsOf(written[1].record, "network") = {}

\* a usage lookup that raises anything but a permission error
Fatal(partition) == partition.usage.raises \notin {"", "PermissionError"}

\* the file get_cpu_temperature opens: the configured one if it exists, else
\* the fallback
Consulted(config, o) ==
    IF o.files[config.cpu_temp_path].exists THEN o.files[config.cpu_temp_path]
    ELSE o.files[FallbackTempPath]

Unparsable(file) == file.open_raises # "" \/ PyInt(file.content).raised # ""

\* a platform call of the category's adapter raised in this collection
Failed(config, o, cat) ==
    /\ Switch(config, cat)
    /\ CASE cat = "cpu" -> o.cpu.raises # ""
         [] cat = "memory" -> o.memory.raises # ""
         [] cat = "disk" ->
                \/ o.disk.raises # ""
                \/ \E i \in 1..Len(o.disk.partitions) : Fatal(o.disk.partitions[i])
         [] cat = "network" -> o.network.raises # ""
         [] cat = "temperature" ->
                Consulted(config, o).exists /\ Unparsable(Consulted(config, o))

\* the OS state with every failing platform call made to succeed (a permission
\* error of a usage lookup is a skip, not a failure, and stays)
Heal(o) ==
    [cpu |-> [o.cpu EXCEPT !.raises = ""],
     memory |-> [o.memory EXCEPT !.raises = ""],
     disk |-> [raises |-> "",
               partitions |-> [i \in 1..Len(o.disk.partitions) |->
                                  IF Fatal(o.disk.partitions[i])
                                  THEN [o.disk.partitions[i] EXCEPT !.usage.raises = ""]
                                  ELSE o.disk.partitions[i]]],
     network |-> [o.network EXCEPT !.raises = ""],
     files |-> [p \in DOMAIN o.files |->
                  IF o.files[p].exists /\ Unparsable(o.files[p])
                  THEN File(C45000) ELSE o.files[p]]]

SameResult(m1, m2, cat) ==
    /\ cat \in DOMAIN m1 <=> cat \in DOMAIN m2
    /\ cat \in DOMAIN m1 => m1[cat] = m2[cat]

\* the partitions read before the first fatal lookup, without those skipped
\* for a permission error
ReadPartitions(disk) ==
    LET n == Len(disk.partitions)
        fatal == {i \in 1..n : Fatal(disk.partitions[i])}
        last == IF disk.raises # "" THEN 0
                ELSE IF fatal = {} THEN n
                ELSE (CHOOSE i \in fatal : \A j \in fatal : i <= j) - 1
        ok(partition) == partition.usage.raises = ""
    IN  SelectSeq(SubSeq(disk.partitions, 1, last), ok)

OthersUnaffected ==
    \A cat \in Categories :
        ~Failed(monitoring_config, os, cat) =>
            SameResult(metrics, collect_all_metrics(monitoring_config, Heal(os)).val, cat)

\* C2 as claimed: no failure leaves collect_all_metrics, every failing adapter
\* contributes an empty or absent result, every other adapter its usual one.
C2_FailingAdapterYieldsEmpty ==
    /\ pending = ""
    /\ Collected =>
        /\ \A cat \in Categories :
              Failed(monitoring_config, os, cat) => EmptyOrAbsent(metrics, cat)
        /\ OthersUnaffected

\* C2, amended: as claimed for cpu, memory, network and temperature; a failing
\* disk adapter contributes the entries of the partitions it read before the
\* failure (none when the partition table itself could not be read).
C2_FailureIsContained ==
    /\ pending = ""
    /\ Collected =>
        /\ \A cat \in Categories \ {"disk"} :
              Failed(monitoring_config, os, cat) => EmptyOrAbsent(metrics, cat)
        /\ Failed(monitoring_config, os, "disk") =>
              /\ Len(metrics["disk"]) = Len(ReadPartitions(os.disk))
              /\ \A k \in 1..Len(metrics["disk"]) :
                    metrics["disk"][k] = DiskEntry(ReadPartitions(os.disk)[k])
        /\ OthersUnaffected

\* cpu, memory, network and the temperature file all fail at once and the
\* disk adapter still returns its partitions
C2_Witness ==
    /\ Collected
    /\ \A cat \in Categories \ {"disk"} : Failed(monitoring_config, os, cat)
    /\ ~Failed(monitoring_config, os, "disk")
    /\ monitoring_config.enable_disk
    /\ Len(metrics["disk"]) = 2
    /\ \A cat \in Categories \ {"disk"} : EmptyOrAbsent(metrics, cat)

IsDiskPoint(point) == point.measurement = "disk"

AllSwitchesOn(config) == \A cat \in Categories : Switch(config, cat)

\* one partition, one interface, a readable temperature file, nothing failing
FivePointScenario ==
    /\ AllSwitchesOn(monitoring_config)
    /\ \A cat \in Categories : ~Failed(monitoring_config, os, cat)
    /\ Len(os.disk.partitions) = 1 /\ os.disk.partitions[1].usage.raises = ""
    /\ Len(os.network.nics) = 1
    /\ os.files[monitoring_config.cpu_temp_path].exists

\* C5: one cycle makes exactly one backend write call; its batch holds one
\* point for each of cpu, memory and temperature whose record is present and
\* not empty, one per disk entry, one per network entry and nothing else;
\* every point carries the host tag; the count reported is the batch size;
\* in the five-point scenario the batch holds 5 points.
C5_OneBatchOfTheSnapshot ==
    pc = "sleeptest" =>
        /\ Len(written) = 1
        /\ LET batch == written[1].record
           IN  /\ \A cat \in {"cpu", "memory", "temperature"} :
                     Cardinality(PointsOf(batch, cat)) =
                        IF EmptyOrAbsent(metrics, cat) THEN 0 ELSE 1
               /\ Cardinality(PointsOf(batch, "disk")) = Len(metrics["disk"])
               /\ Cardinality(PointsOf(batch, "network")) = Len(metrics["network"])
               /\ \A j \in 1..Len(batch) :
                     /\ batch[j].measurement \in Categories
                     /\ "host" \in DOMAIN batch[j].tags
                     /\ batch[j].tags["host"] = influxdb_config.hostname
               /\ written[1].ok => reported = Len(batch)
               /\ FivePointScenario => Len(batch) = 5

\* the five-point scenario, written and reported as 5 points
C5_Witness ==
    /\ pc = "sleeptest"
    /\ FivePointScenario
    /\ Len(written) = 1
    /\ written[1].ok
    /\ Len(written[1].record) = 5
    /\ reported = 5

DiskPoints == SelectSeq(written[1].record, IsDiskPoint)

TagPair(point) == <<point.tags["device"], point.tags["mountpoint"]>>

DiskPointsAreWellFormed ==
    /\ Len(DiskPoints) = Len(ReadPartitions(os.disk))
    /\ (os.disk.raises = "" /\ \A i \in 1..Len(os.disk.partitions) : ~Fatal(os.disk.partitions[i])) =>
          Len(DiskPoints) =
             Cardinality({i \in 1..Len(os.disk.partitions) : os.disk.partitions[i].usage.raises = ""})
    /\ \A i \in 1..Len(DiskPoints) :
          /\ {"device", "mountpoint"} \subseteq DOMAIN DiskPoints[i].tags
          /\ {"device", "mountpoint"} \cap DOMAIN DiskPoints[i].fields = {}

\* C6 as claimed: as many disk points as partitions read, the partitions that
\* raise a permission error skipped and the others kept; the disk points of a
\* cycle carry pairwise distinct (device, mountpoint) pairs, as tags only.
C6_DiskPointsAreDistinct ==
    (pc = "sleeptest" /\ monitoring_config.enable_disk) =>
        /\ DiskPointsAreWellFormed
        /\ \A i, j \in 1..Len(DiskPoints) :
              i # j => TagPair(DiskPoints[i]) # TagPair(DiskPoints[j])

\* C6, amended: the disk points carry, in order, the (device, mountpoint)
\* pairs of the partitions read; they are pairwise distinct when the platform
\* lists no mount twice.
C6_DiskPointsFollowPartitions ==
    (pc = "sleeptest" /\ monitoring_config.enable_disk) =>
        /\ DiskPointsAreWellFormed
        /\ \A i \in 1..Len(DiskPoints) :
              TagPair(DiskPoints[i]) = <<ReadPartitions(os.disk)[i].device,
                                         ReadPartitions(os.disk)[i].mountpoint>>
        /\ (\A i, j \in 1..Len(os.disk.partitions) :
               i # j => <<os.disk.partitions[i].device, os.disk.partitions[i].mountpoint>>
                        # <<os.disk.partitions[j].device, os.disk.partitions[j].mountpoint>>)
           => \A i, j \in 1..Len(DiskPoints) :
                 i # j => TagPair(DiskPoints[i]) # TagPair(DiskPoints[j])

\* the first partition raises a permission error and the second is read: one
\* disk point, carrying the second partition's tags
C6_Witness ==
    /\ pc = "sleeptest"
    /\ monitoring_config.enable_disk
    /\ Len(os.disk.partitions) = 2
    /\ os.disk.partitions[1].usage.raises = "PermissionError"
    /\ os.disk.partitions[2].usage.raises = ""
    /\ os.disk.partitions[2].device # os.disk.partitions[1].device
    /\ Len(DiskPoints) = 1
    /\ TagPair(DiskPoints[1]) = <<os.disk.partitions[2].device, os.disk.partitions[2].mountpoint>>

Readable(file) == file.exists /\ ~Unparsable(file)

\* t is the content of file, an integer of millidegrees, divided by 1000
IsCelsiusOf(t, file) ==
    LET n == PyInt(file.content).val
    IN  /\ ~t.is_none
        /\ t.val.frac \in 0..999
        /\ t.val.whole * 1000 + t.val.frac = (IF n < 0 THEN 0 - n ELSE n)
        /\ t.val.neg <=> n < 0

PrimaryFile == os.files[monitoring_config.cpu_temp_path]

FallbackFile == os.files[FallbackTempPath]

\* C7: with the temperature switch on, get_cpu_temperature never raises and
\* returns the primary file's millidegrees / 1000 when that file exists and
\* parses (45000 gives 45.0), the fallback file's when the primary path does
\* not exist and the fallback parses (50000 gives 50.0), and None otherwise:
\* the fallback is not read when the primary path exists.
C7_TemperatureReading ==
    (pc = "returned" /\ monitoring_config.enable_temperature) =>
        /\ temp.raised = ""
        /\ Readable(PrimaryFile) => IsCelsiusOf(temp, PrimaryFile)
        /\ (Readable(PrimaryFile) /\ PrimaryFile.content = C45000) =>
              temp.val = [neg |-> FALSE, whole |-> 45, frac |-> 0]
        /\ (~PrimaryFile.exists /\ Readable(FallbackFile)) => IsCelsiusOf(temp, FallbackFile)
        /\ (~PrimaryFile.exists /\ Readable(FallbackFile) /\ FallbackFile.content = C50000) =>
              temp.val = [neg |-> FALSE, whole |-> 50, frac |-> 0]
        /\ (PrimaryFile.exists /\ ~Readable(PrimaryFile)) => temp.is_none
        /\ (~PrimaryFile.exists /\ ~Readable(FallbackFile)) => temp.is_none

\* the primary path does not exist and the fallback holds 50000: 50.0
C7_Witness ==
    /\ pc = "returned"
    /\ monitoring_config.enable_temperature
    /\ monitoring_config.cpu_temp_path = PrimaryTempPath
    /\ ~PrimaryFile.exists
    /\ FallbackFile = File(C50000)
    /\ ~temp.is_none
    /\ temp.val = [neg |-> FALSE, whole |-> 50, frac |-> 0]

\* C3: a cycle is started only while the stop flag is unset; a signal only
\* sets the flag and leaves the control position alone; a cycle that has
\* started collecting goes on to the write, and whenever control is back at
\* the loop test or past the loop every started cycle has submitted its batch.
C3_SignalNeverCancelsACycle ==
    [][/\ cycle' # cycle => running
       /\ signalled' # signalled => pc' = pc /\ cycle' = cycle /\ written' = written
       /\ (pc = "collect" /\ pc' # pc) => pc' = "write" /\ Len(snaps') = cycle
       /\ (pc = "write" /\ pc' # pc) => pc' = "sleeptest" /\ Len(written') = cycle
       /\ pc' \in {"loop", "cleanup", "exited"} => Len(written') = cycle']_vars

\* the signal came while the first cycle was collecting; the cycle wrote its
\* batch, no second cycle began and the service stopped
C3_Witness ==
    /\ signalled = "collect"
    /\ pc = "exited"
    /\ cycle = 1
    /\ Len(written) = 1
    /\ slept = 0

\* C4 as claimed, for the run's end: when the service has stopped after a
\* signal, the connection is closed and no error was raised out of run.
C4_StopAfterSignalIsClean ==
    (pc = "exited" /\ signalled # "") => (client = "closed" /\ exit = "clean")

\* the part of C4 that holds while the main thread keeps taking steps: after
\* a signal the service eventually stops with the connection closed
SignalLeadsToStop ==
    (signalled # "") ~> (pc = "exited" /\ client = "closed")

\* C8: write_metrics returns to the interval-sleep test whether or not the
\* backend took the batch, raising nothing and leaving the stop flag alone;
\* there is one backend call per cycle, never a second one for a failed
\* batch, and each call carries the points of its own cycle's snapshot only.
C8_FailedWriteIsDropped ==
    [][/\ (pc = "write" /\ pc' # pc) =>
            pc' = "sleeptest" /\ pending' = "" /\ exit' = "" /\ running' = running
       /\ Len(written') <= cycle'
       /\ \A i \in 1..Len(written') :
            /\ written'[i].cycle = i
            /\ written'[i].record = BuildPoints(snaps'[i], influxdb_config'.hostname)]_vars

\* the first cycle's write failed; the service slept and the second cycle
\* wrote a batch of its own
C8_Witness ==
    /\ Len(written) = 2
    /\ ~written[1].ok
    /\ written[2].ok
    /\ written[2].record # written[1].record
    /\ slept = 1
    /\ running
    /\ pending = ""

\* C9: with a required variable unset, or the backend unreachable, the process
\* ends in the constructor with an error: no cycle, no write, no sleep.
C9_NoStartWithoutConfigOrBackend ==
    ((\E v \in DOMAIN env : ~env[v].set) \/ ~backend_up) =>
        /\ pc \in {"main", "exited"}
        /\ pc = "exited" => exit = "error"
        /\ cycle = 0 /\ snaps = <<>> /\ written = <<>> /\ slept = 0
        /\ client = "none"

\* ENABLE_NETWORK, the last variable read, is unset: the process has ended
\* with the ValueError of MonitoringConfig
C9_Witness ==
    /\ ~env["ENABLE_NETWORK"].set
    /\ backend_up
    /\ pc = "exited"
    /\ exit = "error"
    /\ pending = "ValueError"

\* C10 as claimed: a constructed MonitoringConfig has a positive
\* collection_interval, and the loop never sleeps a zero or negative interval.
C10_IntervalIsPositive ==
    /\ monitoring_config.raised = "" => monitoring_config.collection_interval > 0
    /\ pc = "sleep" => monitoring_config.collection_interval > 0

\* run has ended, having been entered with a connected writer
RunEnded == pc = "exited" /\ client # "none"

\* C11: on every way run ends (the flag cleared by a signal, or an exception
\* leaving a cycle) close is called exactly once, and only after the last
\* write_metrics call: the connection is closed nowhere but at the end of run,
\* no batch is written on a closed connection, and when run has ended, with or
\* without an exception to raise again, the connection has been closed once.
C11_ClosedOnceAfterLastWrite ==
    [][ /\ closes' <= 1
        /\ client' = "closed" => pc' = "exited"
        /\ client = "closed" => written' = written
        /\ RunEnded' => (client' = "closed" /\ closes' = 1) ]_vars

\* the first cycle wrote its batch, then time.sleep raised on a negative
\* interval: run has ended with the ValueError, the connection closed once
C11_Witness ==
    /\ RunEnded
    /\ exit = "error"
    /\ pending = "ValueError"
    /\ Len(written) = 1
    /\ client = "closed"
    /\ closes = 1

====
